---- MODULE Spec2Model ----
(***************************************************************************)
(* A model of the Block and Paragraph widgets of the terminal UI crate:    *)
(* src/widgets/block.rs, src/widgets/paragraph.rs and src/symbols.rs.      *)
(* The cell buffer, the rectangle type, the background fill and the line   *)
(* composers live in files that are not part of the sources at hand; they  *)
(* are modelled from the written specification of the crate.               *)
(***************************************************************************)
EXTENDS Integers, Sequences, FiniteSets, TLC

VARIABLES
    block,            \* the Block widget (of a Paragraph: its attached block)
    para,             \* the Paragraph widget
    buf,              \* the cell buffer: coordinate -> cell
    pc,               \* position of the draw call
    text_area,        \* Paragraph::draw: local text_area
    y,                \* Paragraph::draw: local y, the line counter (u16)
    n,                \* number of lines the composer yields for the text
    pulled,           \* number of lines next_line() has returned so far
    painted,          \* lines painted so far: [line, row]
    written,          \* cells written by the text painting loop
    overflowed,       \* an u16 operation left the range 0..65535
    ret,              \* result of the last call of inner / triggers_event / get_line_offset
    args              \* arguments of the last call

vars == <<block, para, buf, pc, text_area, y, n, pulled, painted, written,
          overflowed, ret, args>>

----------------------------------------------------------------------------
(* Bounds of the model *)

BufW == 4            \* columns of the buffer
BufH == 3            \* rows of the buffer
MaxTitleLen == 5     \* longest title
MaxLineLen == 3      \* most graphemes in one composed line
MaxLines == 2        \* most lines of a short text
MaxScroll == 1       \* largest small scroll offset
MaxOffsetArg == 12   \* largest width given to get_line_offset
MaxListeners == 2    \* most registered listeners
MaxCoord == 4        \* largest event coordinate

(* u16 *)
U16Max == 65535

----------------------------------------------------------------------------
(* symbols::line *)

TOP_RIGHT == "TOP_RIGHT"
VERTICAL == "VERTICAL"
HORIZONTAL == "HORIZONTAL"
TOP_LEFT == "TOP_LEFT"
BOTTOM_RIGHT == "BOTTOM_RIGHT"
BOTTOM_LEFT == "BOTTOM_LEFT"

CornerGlyphs == {TOP_LEFT, TOP_RIGHT, BOTTOM_LEFT, BOTTOM_RIGHT}

(* Borders bit set *)
LEFT == "LEFT"
RIGHT == "RIGHT"
TOP == "TOP"
BOTTOM == "BOTTOM"
Borders == {LEFT, RIGHT, TOP, BOTTOM}

intersects(flags, other) == flags \cap other # {}
contains(flags, other) == other \subseteq flags

----------------------------------------------------------------------------
(* layout::Rect *)

Rect(x0, y0, w, h) == [x |-> x0, y |-> y0, width |-> w, height |-> h]
RectDefault == Rect(0, 0, 0, 0)

left(r) == r.x
right(r) == r.x + r.width
top(r) == r.y
bottom(r) == r.y + r.height
hit(r, px, py) == left(r) <= px /\ px < right(r) /\ top(r) <= py /\ py < bottom(r)

Cells(r) == {c \in (left(r)..(right(r) - 1)) \X (top(r)..(bottom(r) - 1)) : TRUE}

(* style::Style *)
Style(f, b) == [fg |-> f, bg |-> b]
StyleDefault == Style("Reset", "Reset")

(* buffer::Buffer *)
BufArea == Rect(0, 0, BufW, BufH)
BufferEmpty == [c \in Cells(BufArea) |-> [symbol |-> " ", style |-> StyleDefault]]

set_cells(b, cs, sym, st) ==
    [c \in DOMAIN b |-> IF c \in cs THEN [symbol |-> sym, style |-> st] ELSE b[c]]

fill_background(b, r, color) ==
    [c \in DOMAIN b |->
        IF c \in Cells(r) THEN [b[c] EXCEPT !.style.bg = color] ELSE b[c]]

Min(a, b) == IF a <= b THEN a ELSE b

set_stringn(b, x0, y0, string, limit, st) ==
    LET max_index == Min(right(BufArea) - x0, limit)
        count == Min(Len(string), max_index)
    IN  [c \in DOMAIN b |->
            IF c[2] = y0 /\ x0 <= c[1] /\ c[1] < x0 + count
            THEN [symbol |-> string[c[1] - x0 + 1], style |-> st]
            ELSE b[c]]

----------------------------------------------------------------------------
(* widgets::Block *)

NoTitle == [some |-> FALSE, str |-> <<>>]
SomeTitle(s) == [some |-> TRUE, str |-> s]

BlockDefault ==
    [title |-> NoTitle, title_style |-> StyleDefault, borders |-> {},
     border_style |-> StyleDefault, style |-> StyleDefault, area |-> RectDefault,
     events |-> <<>>]

(* mutant: a title reserves no row *)
Block_inner_no_title_row(b) ==
    IF b.area.width < 2 \/ b.area.height < 2
    THEN RectDefault
    ELSE LET l == IF intersects(b.borders, {LEFT}) THEN 1 ELSE 0
             t == IF intersects(b.borders, {TOP}) THEN 1 ELSE 0
             r == IF intersects(b.borders, {RIGHT}) THEN 1 ELSE 0
             d == IF intersects(b.borders, {BOTTOM}) THEN 1 ELSE 0
         IN  Rect(b.area.x + l, b.area.y + t,
                  b.area.width - l - r, b.area.height - t - d)

Block_inner(b) ==
    IF b.area.width < 2 \/ b.area.height < 2
    THEN RectDefault
    ELSE LET l == IF intersects(b.borders, {LEFT}) THEN 1 ELSE 0
             t == IF intersects(b.borders, {TOP}) \/ b.title.some THEN 1 ELSE 0
             r == IF intersects(b.borders, {RIGHT}) THEN 1 ELSE 0
             d == IF intersects(b.borders, {BOTTOM}) THEN 1 ELSE 0
         IN  Rect(b.area.x + l, b.area.y + t,
                  b.area.width - l - r, b.area.height - t - d)

Block_get_area(b) == b.area

Block_background(b, bf) == fill_background(bf, Block_get_area(b), b.style.bg)

Block_sides(b, bf) ==
    LET a == b.area
        b1 == IF intersects(b.borders, {LEFT})
              THEN set_cells(bf, {left(a)} \X (top(a)..(bottom(a) - 1)),
                             VERTICAL, b.border_style)
              ELSE bf
        b2 == IF intersects(b.borders, {TOP})
              THEN set_cells(b1, (left(a)..(right(a) - 1)) \X {top(a)},
                             HORIZONTAL, b.border_style)
              ELSE b1
        b3 == IF intersects(b.borders, {RIGHT})
              THEN set_cells(b2, {right(a) - 1} \X (top(a)..(bottom(a) - 1)),
                             VERTICAL, b.border_style)
              ELSE b2
        b4 == IF intersects(b.borders, {BOTTOM})
              THEN set_cells(b3, (left(a)..(right(a) - 1)) \X {bottom(a) - 1},
                             HORIZONTAL, b.border_style)
              ELSE b3
    IN  b4

Block_corners(b, bf) ==
    LET a == b.area
        b1 == IF contains(b.borders, {LEFT, TOP})
              THEN set_cells(bf, {<<left(a), top(a)>>}, TOP_LEFT, b.border_style)
              ELSE bf
        b2 == IF contains(b.borders, {RIGHT, TOP})
              THEN set_cells(b1, {<<right(a) - 1, top(a)>>}, TOP_RIGHT, b.border_style)
              ELSE b1
        b3 == IF contains(b.borders, {LEFT, BOTTOM})
              THEN set_cells(b2, {<<left(a), bottom(a) - 1>>}, BOTTOM_LEFT, b.border_style)
              ELSE b2
        b4 == IF contains(b.borders, {RIGHT, BOTTOM})
              THEN set_cells(b3, {<<right(a) - 1, bottom(a) - 1>>}, BOTTOM_RIGHT,
                             b.border_style)
              ELSE b3
    IN  b4

(* mutant: the title starts at the left edge whatever the borders *)
Block_title_no_left_offset(b, bf) ==
    IF b.title.some
    THEN LET rx == IF intersects(b.borders, {RIGHT}) THEN 1 ELSE 0
             width == b.area.width - rx
         IN  set_stringn(bf, left(b.area), top(b.area), b.title.str, width,
                         b.title_style)
    ELSE bf

Block_title(b, bf) ==
    IF b.title.some
    THEN LET lx == IF intersects(b.borders, {LEFT}) THEN 1 ELSE 0
             rx == IF intersects(b.borders, {RIGHT}) THEN 1 ELSE 0
             width == b.area.width - lx - rx
         IN  set_stringn(bf, left(b.area) + lx, top(b.area), b.title.str, width,
                         b.title_style)
    ELSE bf

(* mutant: too small only when both dimensions are *)
Block_too_small_both(b) == b.area.width < 2 /\ b.area.height < 2

Block_too_small(b) == b.area.width < 2 \/ b.area.height < 2

(* mutant: a width of 2 is taken to have room for the title *)
Block_has_room_for_title_2(b) == b.area.width >= 2

Block_has_room_for_title(b) == b.area.width > 2

Block_draw(b, bf) ==
    IF Block_too_small(b)
    THEN bf
    ELSE LET framed == Block_corners(b, Block_sides(b, Block_background(b, bf)))
         IN  IF Block_has_room_for_title(b) THEN Block_title(b, framed) ELSE framed

Listeners(events, name) == {i \in 1..Len(events) : events[i].name = name}
NoCallback == [some |-> FALSE, callback |-> 0]
SomeCallback(i) == [some |-> TRUE, callback |-> i]
first_listener(events, name) ==
    IF Listeners(events, name) = {}
    THEN NoCallback
    ELSE LET i == CHOOSE k \in Listeners(events, name) :
                      \A j \in Listeners(events, name) : k <= j
         IN  SomeCallback(events[i].callback)

Block_triggers_event(b, event) ==
    IF event.mouse
    THEN IF hit(b.area, event.x, event.y)
         THEN first_listener(b.events, event.type)
         ELSE NoCallback
    ELSE NoCallback

----------------------------------------------------------------------------
(* widgets::Paragraph *)

ParagraphNew ==
    [has_block |-> FALSE, area |-> RectDefault, style |-> StyleDefault,
     wrapping |-> FALSE, scroll |-> 0, alignment |-> "Left", events |-> <<>>]

----------------------------------------------------------------------------
(* Inputs of the Block scenarios *)

Areas ==
    {r \in [x : 0..BufW, y : 0..BufH, width : 0..BufW, height : 0..BufH] :
        right(r) <= BufW /\ bottom(r) <= BufH}

TitleAlphabet == <<"a", "b", "c", "d", "e", "f", "g", "h">>
TitleSymbols == {TitleAlphabet[i] : i \in 1..Len(TitleAlphabet)}
Titles == {NoTitle} \cup {SomeTitle(SubSeq(TitleAlphabet, 1, k)) : k \in 0..MaxTitleLen}

BorderStyle == Style("White", "Reset")
TitleStyles == {Style("Red", "Reset"), BorderStyle}
BlockStyle == Style("Reset", "Black")

Blocks ==
    {[BlockDefault EXCEPT !.title = t, !.title_style = ts, !.borders = bs,
                          !.border_style = BorderStyle, !.style = BlockStyle, !.area = a] :
        t \in Titles, ts \in TitleStyles, bs \in SUBSET Borders, a \in Areas}

NoRet == [kind |-> "none"]

(* What a scenario does not use stays at these values. *)
IdleParagraph ==
    /\ para = ParagraphNew
    /\ text_area = RectDefault
    /\ y = 0
    /\ n = 0
    /\ pulled = 0
    /\ painted = {}
    /\ written = {}
    /\ overflowed = FALSE

InitBlock ==
    /\ block \in Blocks
    /\ buf = BufferEmpty
    /\ pc = "new"
    /\ ret = NoRet
    /\ args = <<>>
    /\ IdleParagraph

(* a call of Block::inner *)
BlockInner ==
    /\ ret.kind = "none"
    /\ ret' = [kind |-> "rect", rect |-> Block_inner(block)]
    /\ UNCHANGED <<block, para, buf, pc, text_area, y, n, pulled, painted, written,
                   overflowed, args>>

(* a call of Block::draw *)
BlockDraw ==
    /\ pc = "new"
    /\ buf' = Block_draw(block, buf)
    /\ pc' = "drawn"
    /\ UNCHANGED <<block, para, text_area, y, n, pulled, painted, written,
                   overflowed, ret, args>>

NextBlock == BlockInner \/ BlockDraw

SpecBlock == InitBlock /\ [][NextBlock]_vars

----------------------------------------------------------------------------
(* Claims about Block *)

BL == IF LEFT \in block.borders THEN 1 ELSE 0
BR == IF RIGHT \in block.borders THEN 1 ELSE 0
BB == IF BOTTOM \in block.borders THEN 1 ELSE 0
BT == IF TOP \in block.borders \/ block.title.some THEN 1 ELSE 0
Drawable == block.area.width >= 2 /\ block.area.height >= 2

Inside(r, a) ==
    /\ left(a) <= left(r) /\ right(r) <= right(a)
    /\ top(a) <= top(r) /\ bottom(r) <= bottom(a)

(* C1: for an area of width >= 2 and height >= 2, Block::inner returns
   x + L, y + T, width - L - R, height - T - B, where T is 1 when TOP is
   enabled or a title is set; nothing underflows and the result lies inside
   the area. *)
C1_InnerRect ==
    (ret.kind = "rect" /\ Drawable) =>
        /\ ret.rect = Rect(block.area.x + BL, block.area.y + BT,
                           block.area.width - BL - BR, block.area.height - BT - BB)
        /\ ret.rect.width >= 0 /\ ret.rect.height >= 0
        /\ ret.rect.x <= U16Max /\ ret.rect.y <= U16Max
        /\ Inside(ret.rect, block.area)

C1_Witness ==
    /\ ret.kind = "rect" /\ Drawable
    /\ block.title.some /\ TOP \notin block.borders
    /\ block.borders = {LEFT, RIGHT, BOTTOM}
    /\ block.area.width = 2 /\ block.area.height = 2

(* C2: for an area of width < 2 or height < 2, Block::inner returns a
   rectangle of zero area and Block::draw changes the symbol of no cell. *)
C2_TooSmall ==
    ~Drawable =>
        /\ ret.kind = "rect" => ret.rect.width * ret.rect.height = 0
        /\ pc = "drawn" => \A c \in DOMAIN buf : buf[c].symbol = BufferEmpty[c].symbol

C2_Witness ==
    /\ ~Drawable /\ ret.kind = "rect" /\ pc = "drawn"
    /\ block.area.width = 1 /\ block.area.height = BufH
    /\ block.borders = Borders /\ block.title.some /\ Len(block.title.str) > 0

Corner(v, h) ==
    <<IF h = LEFT THEN left(block.area) ELSE right(block.area) - 1,
      IF v = TOP THEN top(block.area) ELSE bottom(block.area) - 1>>

CornerGlyph(v, h) ==
    IF v = TOP THEN (IF h = LEFT THEN TOP_LEFT ELSE TOP_RIGHT)
               ELSE (IF h = LEFT THEN BOTTOM_LEFT ELSE BOTTOM_RIGHT)

(* C3: after Block::draw on a drawable area, a corner whose two edges are
   both enabled holds its corner glyph in the border style, whatever the
   title; a corner with a disabled edge holds no corner glyph. *)
C3_Corners ==
    (pc = "drawn" /\ Drawable) =>
        \A v \in {TOP, BOTTOM}, h \in {LEFT, RIGHT} :
            IF {v, h} \subseteq block.borders
            THEN buf[Corner(v, h)] =
                    [symbol |-> CornerGlyph(v, h), style |-> block.border_style]
            ELSE buf[Corner(v, h)].symbol \notin CornerGlyphs

C3_Witness ==
    /\ pc = "drawn" /\ Drawable
    /\ block.borders = Borders
    /\ block.title.some /\ Len(block.title.str) > block.area.width
    /\ block.area.width > 2

TitleCells == {c \in DOMAIN buf : buf[c].symbol \in TitleSymbols}
TitleShown == Min(Len(block.title.str), block.area.width - BL - BR)

(* C4: Block::draw paints the title iff one is set and the width exceeds 2
   (the height being >= 2); it starts at column x + L of the top row, takes at
   most width - L - R columns, never the right border column, and its cells
   carry the title style. *)
C4_Title ==
    pc = "drawn" =>
        IF block.title.some /\ block.area.width > 2 /\ block.area.height >= 2
        THEN /\ TitleCells =
                    {<<block.area.x + BL + i, block.area.y>> : i \in 0..(TitleShown - 1)}
             /\ \A i \in 0..(TitleShown - 1) :
                    buf[<<block.area.x + BL + i, block.area.y>>] =
                        [symbol |-> block.title.str[i + 1], style |-> block.title_style]
             /\ Cardinality(TitleCells) <= block.area.width - BL - BR
             /\ Len(block.title.str) > 0 => TitleCells # {}
             /\ RIGHT \in block.borders =>
                    \A c \in TitleCells : c[1] < right(block.area) - 1
        ELSE TitleCells = {}

C4_Witness ==
    /\ pc = "drawn"
    /\ block.title.some /\ Len(block.title.str) > block.area.width
    /\ block.area.width > 2 /\ block.area.height >= 2
    /\ block.borders = {RIGHT}
    /\ block.title_style # block.border_style

C4_WitnessWidth2 ==
    /\ pc = "drawn"
    /\ block.title.some /\ Len(block.title.str) > 0
    /\ block.area.width = 2 /\ block.area.height >= 2
    /\ block.borders = {}

----------------------------------------------------------------------------
(* get_line_offset and Paragraph *)

Max(a, b) == IF a >= b THEN a ELSE b
saturating_sub(a, b) == Max(a - b, 0)

(* mutant: centre by halving the free width *)
get_line_offset_half_free(line_width, text_area_width, alignment) ==
    CASE alignment = "Center" -> saturating_sub(text_area_width, line_width) \div 2
      [] alignment = "Right" -> saturating_sub(text_area_width, line_width)
      [] alignment = "Left" -> 0

get_line_offset(line_width, text_area_width, alignment) ==
    CASE alignment = "Center" ->
            saturating_sub(text_area_width \div 2, line_width \div 2)
      [] alignment = "Right" -> saturating_sub(text_area_width, line_width)
      [] alignment = "Left" -> 0

Alignments == {"Left", "Center", "Right"}

OffsetArgs == (0..MaxOffsetArg) \cup {U16Max - 1, U16Max}

InitOffset ==
    /\ args \in [line_width : OffsetArgs, text_area_width : OffsetArgs,
                 alignment : Alignments]
    /\ ret = NoRet
    /\ block = BlockDefault
    /\ buf = BufferEmpty
    /\ pc = "new"
    /\ IdleParagraph

(* a call of get_line_offset *)
CallOffset ==
    /\ ret.kind = "none"
    /\ ret' = [kind |-> "u16",
               value |-> get_line_offset(args.line_width, args.text_area_width,
                                         args.alignment)]
    /\ UNCHANGED <<block, para, buf, pc, text_area, y, n, pulled, painted, written,
                   overflowed, args>>

NextOffset == CallOffset

SpecOffset == InitOffset /\ [][NextOffset]_vars

(* C7: get_line_offset is 0 for left; t - w for right when w <= t, else 0;
   floor(t/2) - floor(w/2) saturating at 0 for centre, which for w <= t is
   within one column of (t - w)/2; and with w <= t, offset + w <= t. *)
C7_LineOffset ==
    ret.kind = "u16" =>
        LET w == args.line_width
            t == args.text_area_width
            v == ret.value
        IN  /\ v \in 0..U16Max
            /\ args.alignment = "Left" => v = 0
            /\ args.alignment = "Right" => v = (IF w <= t THEN t - w ELSE 0)
            /\ args.alignment = "Center" =>
                    /\ v = (IF t \div 2 >= w \div 2 THEN (t \div 2) - (w \div 2) ELSE 0)
                    /\ w <= t => (2 * v - (t - w) <= 2 /\ (t - w) - 2 * v <= 2)
            /\ w <= t => v + w <= t

C7_Witness ==
    /\ ret.kind = "u16"
    /\ args.alignment = "Center"
    /\ args.text_area_width = 4 /\ args.line_width = 3
    /\ ret.value = 1

----------------------------------------------------------------------------
(* triggers_event *)

Paragraph_get_area(p, b) == IF p.has_block THEN Block_inner(b) ELSE p.area

Paragraph_triggers_event(p, event) ==
    IF event.mouse
    THEN IF hit(p.area, event.x, event.y)
         THEN first_listener(p.events, event.type)
         ELSE NoCallback
    ELSE NoCallback

EventNames == {"click", "mouseover"}

ListenerLists ==
    UNION {{[i \in 1..k |-> [name |-> f[i], callback |-> i]] : f \in [1..k -> EventNames]} :
            k \in 0..MaxListeners}

Events ==
    [mouse : {TRUE}, type : EventNames \cup {"mouseout"}, x : 0..MaxCoord, y : 0..MaxCoord]
        \cup {[mouse |-> FALSE, type |-> "keypress", x |-> 0, y |-> 0]}

EventAreas == {Rect(0, 0, 0, 0), Rect(0, 0, BufW, BufH), Rect(1, 1, 2, 2)}

InitEvent ==
    /\ \E a \in EventAreas, bs \in {{}, Borders}, ls \in ListenerLists :
          block = [BlockDefault EXCEPT !.area = a, !.borders = bs, !.events = ls]
    /\ \E a \in EventAreas, hb \in BOOLEAN, ls \in ListenerLists :
          /\ para = [ParagraphNew EXCEPT !.area = a, !.has_block = hb, !.events = ls]
          /\ hb => a = block.area
    /\ buf = BufferEmpty
    /\ pc = "new"
    /\ ret = NoRet
    /\ args = <<>>
    /\ text_area = RectDefault
    /\ y = 0
    /\ n = 0
    /\ pulled = 0
    /\ painted = {}
    /\ written = {}
    /\ overflowed = FALSE

(* a call of Block::triggers_event *)
BlockTriggersEvent ==
    /\ ret.kind = "none"
    /\ \E e \in Events :
          /\ args' = [widget |-> "Block", event |-> e]
          /\ ret' = [kind |-> "callback", value |-> Block_triggers_event(block, e)]
    /\ UNCHANGED <<block, para, buf, pc, text_area, y, n, pulled, painted, written,
                   overflowed>>

(* a call of Paragraph::triggers_event *)
ParagraphTriggersEvent ==
    /\ ret.kind = "none"
    /\ \E e \in Events :
          /\ args' = [widget |-> "Paragraph", event |-> e]
          /\ ret' = [kind |-> "callback", value |-> Paragraph_triggers_event(para, e)]
    /\ UNCHANGED <<block, para, buf, pc, text_area, y, n, pulled, painted, written,
                   overflowed>>

NextEvent == BlockTriggersEvent \/ ParagraphTriggersEvent

SpecEvent == InitEvent /\ [][NextEvent]_vars

ReportedArea ==
    IF args.widget = "Block" THEN Block_get_area(block) ELSE Paragraph_get_area(para, block)

WidgetEvents == IF args.widget = "Block" THEN block.events ELSE para.events

(* C9: triggers_event returns the handler of the first listener of the
   event's kind exactly when the event is a pointer event whose coordinate
   lies in the rectangle the widget reports through get_area(); otherwise it
   returns no handler; and it changes no widget or buffer state. *)
C9_TriggersEvent ==
    ret.kind = "callback" =>
        /\ ret.value =
              (IF args.event.mouse /\ hit(ReportedArea, args.event.x, args.event.y)
               THEN first_listener(WidgetEvents, args.event.type)
               ELSE NoCallback)
        /\ buf = BufferEmpty

----------------------------------------------------------------------------
(* Paragraph::draw *)

U16 == U16Max + 1

(* Styled graphemes: one symbol for each display width. *)
ParagraphStyle == Style("White", "Black")
Styled(sym, w) == [symbol |-> sym, width |-> w, style |-> ParagraphStyle]
Graphemes == {Styled("z", 0), Styled("x", 1), Styled("W", 2)}

RECURSIVE width_of(_)
width_of(line) ==
    IF line = <<>> THEN 0 ELSE Head(line).width + width_of(Tail(line))

(* The lines a composer of either mode may yield for a width budget: none at
   all for a budget of 0, else lines of units that fit the budget. *)
composed_lines(wrapping, max_line_width) ==
    IF max_line_width = 0
    THEN {}
    ELSE {l \in UNION {[1..k -> Graphemes] : k \in 0..MaxLineLen} :
            width_of(l) <= max_line_width}

Paragraph_background(p, b, bf) == fill_background(bf, Paragraph_get_area(p, b), p.style.bg)

(* The for loop over one line: get_mut fails outside the buffer. *)
RECURSIVE paint_line(_, _, _, _, _, _)
paint_line(acc, line, i, x, left_col, row) ==
    IF i > Len(line)
    THEN acc
    ELSE LET c == <<(left_col + x) % U16, row>>
         IN  IF c \notin DOMAIN acc.buf
             THEN [acc EXCEPT !.ok = FALSE]
             ELSE paint_line([buf |-> [acc.buf EXCEPT ![c] = [symbol |-> line[i].symbol,
                                                            style |-> line[i].style]],
                              written |-> acc.written \cup {c},
                              ok |-> TRUE],
                             line, i + 1, (x + line[i].width) % U16, left_col, row)

ParaAreas ==
    {Rect(0, 0, BufW, BufH), Rect(1, 1, BufW - 2, BufH - 2), Rect(0, 0, 2, 2),
     Rect(1, 0, 1, BufH), Rect(0, 1, BufW - 1, 2), Rect(0, 0, 1, 1),
     Rect(0, 0, 0, BufH), Rect(0, 0, BufW, 0)}

ParaBlocks ==
    {[BlockDefault EXCEPT !.title = t, !.title_style = BorderStyle, !.borders = bs,
                          !.border_style = BorderStyle, !.style = BlockStyle, !.area = a] :
        t \in {NoTitle, SomeTitle(SubSeq(TitleAlphabet, 1, MaxTitleLen))},
        bs \in {{}, {LEFT, RIGHT}, {TOP, BOTTOM}, Borders}, a \in ParaAreas}

Scrolls == (0..MaxScroll) \cup {U16Max}
LineCounts == (0..MaxLines) \cup {U16Max + 1}

InitPara ==
    /\ \E hb \in BOOLEAN, w \in BOOLEAN, s \in Scrolls, al \in Alignments :
          para = [ParagraphNew EXCEPT !.has_block = hb, !.wrapping = w, !.scroll = s,
                                      !.alignment = al, !.style = ParagraphStyle]
    /\ IF para.has_block
       THEN block \in ParaBlocks /\ para.area = RectDefault
       ELSE block = BlockDefault /\ para.area \in ParaAreas
    /\ n \in LineCounts
       \* a composer with a width budget of 0 yields no line
    /\ Paragraph_get_area(para, block).width = 0 => n = 0
    /\ buf = BufferEmpty
    /\ pc = "new"
    /\ text_area = RectDefault
    /\ y = 0
    /\ pulled = 0
    /\ painted = {}
    /\ written = {}
    /\ overflowed = FALSE
    /\ ret = NoRet
    /\ args = <<>>

(* Paragraph::draw up to the loop: lines 154-182 *)
ParaBegin ==
    /\ pc = "new"
    /\ LET ta == Paragraph_get_area(para, block)
           framed == IF para.has_block THEN Block_draw(block, buf) ELSE buf
       IN  /\ text_area' = ta
           /\ IF ta.height < 1
              THEN buf' = framed /\ pc' = "skipped"
              ELSE buf' = Paragraph_background(para, block, framed) /\ pc' = "loop"
    /\ y' = 0
    /\ UNCHANGED <<block, para, n, pulled, painted, written, overflowed, ret, args>>

(* One turn of the while loop, next_line() returning a line: lines 183-197.
   An u16 operation that leaves 0..65535 panics in a build with overflow
   checks and wraps in a build without. *)
ParaLine ==
    /\ pc = "loop"
    /\ pulled < n
    /\ \E line \in composed_lines(para.wrapping, text_area.width),
          overflow_checks \in BOOLEAN :
          LET painting == y >= para.scroll
              x0 == get_line_offset(width_of(line), text_area.width, para.alignment)
              row_sum == top(text_area) + y
              row_ovf == /\ painting /\ line # <<>>
                         /\ (row_sum > U16Max \/ (row_sum % U16) < para.scroll)
              row == ((row_sum % U16) - para.scroll) % U16
              panic_row == row_ovf /\ overflow_checks
              res == IF painting /\ ~panic_row
                     THEN paint_line([buf |-> buf, written |-> {}, ok |-> TRUE],
                                     line, 1, x0, left(text_area), row)
                     ELSE [buf |-> buf, written |-> {}, ok |-> TRUE]
              tail == ~panic_row /\ res.ok
              y_ovf == y + 1 > U16Max
              y1 == (y + 1) % U16
              b_reached == tail /\ ~(y_ovf /\ overflow_checks)
              b_ovf == text_area.height + para.scroll > U16Max
              bound == (text_area.height + para.scroll) % U16
              ovf == row_ovf \/ (tail /\ y_ovf) \/ (b_reached /\ b_ovf)
              panic == ~tail \/ (overflow_checks /\ (y_ovf \/ b_ovf))
          IN  /\ buf' = res.buf
              /\ written' = written \cup res.written
              /\ painted' = IF painting /\ tail
                            THEN painted \cup {[line |-> pulled, row |-> row]}
                            ELSE painted
              /\ pulled' = pulled + 1
              /\ overflowed' = (overflowed \/ ovf)
              /\ y' = IF tail THEN y1 ELSE y
              /\ pc' = IF panic THEN "panic"
                       ELSE IF y1 >= bound THEN "break" ELSE "loop"
    /\ UNCHANGED <<block, para, text_area, n, ret, args>>

(* next_line() returning None ends the loop: line 183 *)
ParaEnd ==
    /\ pc = "loop"
    /\ pulled = n
    /\ pc' = "end"
    /\ UNCHANGED <<block, para, buf, text_area, y, n, pulled, painted, written,
                   overflowed, ret, args>>

NextPara == ParaBegin \/ ParaLine \/ ParaEnd

SpecPara == InitPara /\ [][NextPara]_vars

----------------------------------------------------------------------------
(* Claims about Paragraph::draw *)

(* C5: the text painting of Paragraph::draw writes only cells inside the
   rectangle of get_area(). *)
C5_WritesInsideArea ==
    \A c \in written : hit(Paragraph_get_area(para, block), c[1], c[2])

Returned == pc \in {"break", "end"}

(* C6: with scroll s and a text area of height h >= 1, over a composer of n
   lines, exactly the lines s .. min(n, s + h) - 1 are painted, line i on row
   top + (i - s), and the composer is asked for no line of index >= s + h. *)
C6_ScrollWindow ==
    Returned =>
        LET s == para.scroll
            h == text_area.height
        IN  /\ painted = {[line |-> i, row |-> top(text_area) + (i - s)] :
                            i \in s..(Min(n, s + h) - 1)}
            /\ pulled = Min(n, s + h)
            /\ pc = "end" => n < s + h

FrameCells == Cells(block.area) \ Cells(Block_inner(block))

(* C8: with a Block attached, after Paragraph::draw every cell of the
   block's frame holds what Block::draw alone leaves there, and nothing is
   painted after the block when the inner rectangle has no height. *)
C8_FrameIntact ==
    (para.has_block /\ pc \in {"break", "end", "skipped"}) =>
        /\ \A c \in FrameCells : buf[c] = Block_draw(block, BufferEmpty)[c]
        /\ text_area.height = 0 => buf = Block_draw(block, BufferEmpty)

(* C10: no u16 operation of the paint loop overflows or underflows, and the
   loop pulls at most h + s lines. *)
C10_NoOverflow ==
    /\ ~overflowed
    /\ pulled <= text_area.height + para.scroll

====
